---- MODULE Spec2Model ----
(***************************************************************************)
(* Inventory Management System (src/app.py): the SQLite tables stock,      *)
(* orders, order_items and stock_entries, the functions that read and      *)
(* write them, the stock-text parser and the Streamlit pages that call     *)
(* them.                                                                   *)
(*                                                                         *)
(* A text (a Python str) is a sequence of tokens: a token is a word (a     *)
(* run of non-whitespace characters), a tab "\t" or a space " ".  The      *)
(* empty string is << >>.  A table is the sequence of its rows in rowid    *)
(* order.                                                                  *)
(***************************************************************************)
EXTENDS Integers, Sequences, FiniteSets, TLC

VARIABLES
    stock,          \* table stock: rows [lot_no, product_description, quantity]
    orders,         \* table orders: rows [id, party_name, gadi_no, order_date]
    order_items,    \* table order_items: rows [id, order_id, lot_no, quantity, product_description]
    stock_entries,  \* table stock_entries: rows of the eight parsed columns
    session_items,  \* st.session_state.order_items of the Place Order page
    shown,          \* the buttons the last script run rendered
    op,             \* the last call or script run, with its arguments
    pre,            \* the tables as they were before that call
    ret,            \* what that call returned (or the messages it displayed)
    text,           \* the text handed to parse_stock_text
    parsed,         \* its outcome: the entries returned, or the exception raised
    pc,             \* per session, its position in update_stock_after_order
    cur,            \* per session, the row fetched by its SELECT
    req             \* per session, the (lot_no, quantity) it was called with

vars == <<stock, orders, order_items, stock_entries, session_items, shown,
          op, pre, ret, text, parsed, pc, cur, req>>

----------------------------------------------------------------------------
(* Bounds of the model.                                                    *)

MaxQty == 4         \* largest stock quantity add_stock_increment may reach
MaxEntries == 2     \* rows of stock_entries
MaxRows == 3        \* order items, pending in the session or stored in order_items

(* The input values the model draws from.                                  *)
Lots == {<<"14016">>, <<"14019">>}
Descs == {<<"SAFAWI">>}
ProductNames == {<<"DATES">>}
BrandNames == {<<"AJWA">>}
Parties == {<<"NS">>}
Asks == {1, 2}                  \* quantities asked for (number_input min_value=1)
ItemAsks == {2}                 \* quantities of the items put on an order
Balances == {0 - 1, 0, 2}       \* int() of a BalanceQuantity field: any integer

----------------------------------------------------------------------------
(* Helpers on tables.                                                      *)

Range(s) == {s[i] : i \in 1..Len(s)}

RECURSIVE SumSeq(_)
SumSeq(s) == IF s = << >> THEN 0 ELSE Head(s) + SumSeq(Tail(s))

(* The rows of table t whose lot_no is lot, in rowid order.                *)
RowsOf(t, lot) == SelectSeq(t, LAMBDA r : r.lot_no = lot)

(* INSERT INTO stock (lot_no, product_description, quantity): the UNIQUE   *)
(* constraint on lot_no raises sqlite3.IntegrityError and leaves the table *)
(* as it was.                                                              *)
InsertStock(t, lot_no, product_description, quantity) ==
    IF RowsOf(t, lot_no) # << >>
    THEN [raised |-> TRUE, table |-> t]
    ELSE [raised |-> FALSE,
          table |-> Append(t, [lot_no |-> lot_no,
                               product_description |-> product_description,
                               quantity |-> quantity])]

(* UPDATE stock SET quantity = ?, product_description = ? WHERE lot_no = ? *)
UpdateStockSet(t, lot_no, product_description, quantity) ==
    [i \in 1..Len(t) |->
        IF t[i].lot_no = lot_no
        THEN [t[i] EXCEPT !.quantity = quantity,
                          !.product_description = product_description]
        ELSE t[i]]

(* UPDATE stock SET quantity = quantity + ?, product_description = ? ...   *)
UpdateStockAdd(t, lot_no, product_description, quantity_to_add) ==
    [i \in 1..Len(t) |->
        IF t[i].lot_no = lot_no
        THEN [t[i] EXCEPT !.quantity = @ + quantity_to_add,
                          !.product_description = product_description]
        ELSE t[i]]

(* UPDATE stock SET quantity = ? WHERE lot_no = ?                          *)
UpdateStockQty(t, lot_no, new_qty) ==
    [i \in 1..Len(t) |->
        IF t[i].lot_no = lot_no THEN [t[i] EXCEPT !.quantity = new_qty]
        ELSE t[i]]

----------------------------------------------------------------------------
(* The stock functions.                                                    *)

(* set_stock with the UPDATE of add_stock_increment: the quantity adds up. *)
set_stock_accumulate(t, lot_no, product_description, new_quantity) ==
    LET ins == InsertStock(t, lot_no, product_description, new_quantity)
    IN  IF ins.raised
        THEN UpdateStockAdd(t, lot_no, product_description, new_quantity)
        ELSE ins.table

set_stock(t, lot_no, product_description, new_quantity) ==
    LET ins == InsertStock(t, lot_no, product_description, new_quantity)
    IN  IF ins.raised
        THEN UpdateStockSet(t, lot_no, product_description, new_quantity)
        ELSE ins.table

(* add_stock_increment that keeps the description of an existing row.    *)
add_stock_increment_keep_desc(t, lot_no, product_description, quantity_to_add) ==
    LET ins == InsertStock(t, lot_no, product_description, quantity_to_add)
    IN  IF ins.raised
        THEN UpdateStockQty(t, lot_no,
                 RowsOf(t, lot_no)[1].quantity + quantity_to_add)
        ELSE ins.table

add_stock_increment(t, lot_no, product_description, quantity_to_add) ==
    LET ins == InsertStock(t, lot_no, product_description, quantity_to_add)
    IN  IF ins.raised
        THEN UpdateStockAdd(t, lot_no, product_description, quantity_to_add)
        ELSE ins.table

(* The collation of the lot numbers of the model (ORDER BY lot_no).        *)
LotRank(lot) ==
    CASE lot = << >> -> 0
      [] lot = <<"14016">> -> 1
      [] lot = <<"14019">> -> 2
      [] OTHER -> 3

RECURSIVE SortByLot(_)
SortByLot(rows) ==
    IF rows = {} THEN << >>
    ELSE LET first == CHOOSE r \in rows :
                          \A o \in rows : LotRank(r.lot_no) <= LotRank(o.lot_no)
         IN  <<first>> \o SortByLot(rows \ {first})

(* SELECT lot_no, product_description, quantity FROM stock ORDER BY lot_no *)
get_stock(t) == SortByLot(Range(t))

(* f"{product_name} - {brand_name}"                                        *)
CombinedDescription(product_name, brand_name) ==
    product_name \o <<" - ">> \o brand_name

(* add_stock_entry: one more row of stock_entries.                         *)
add_stock_entry(t, e) == Append(t, e)

(* update_stock_after_order: the SELECT, the two checks, the UPDATE.  The  *)
(* result is the pair returned, with the stock table it leaves.            *)
NotFoundMsg(lot_no) == [kind |-> "LotNotFound", lot_no |-> lot_no]
InsufficientMsg(lot_no, current_qty, quantity) ==
    [kind |-> "InsufficientStock", lot_no |-> lot_no,
     available |-> current_qty, required |-> quantity]
UpdatedMsg == [kind |-> "Stock updated."]

(* update_stock_after_order refusing a request for all that is left.     *)
update_stock_after_order_strict(t, lot_no, quantity) ==
    LET rows == RowsOf(t, lot_no)
    IN  IF rows = << >>
        THEN [ok |-> FALSE, msg |-> NotFoundMsg(lot_no), stock |-> t]
        ELSE LET current_qty == rows[1].quantity
             IN  IF current_qty <= quantity
                 THEN [ok |-> FALSE,
                       msg |-> InsufficientMsg(lot_no, current_qty, quantity),
                       stock |-> t]
                 ELSE [ok |-> TRUE, msg |-> UpdatedMsg,
                       stock |-> UpdateStockQty(t, lot_no, current_qty - quantity)]

(* update_stock_after_order reading a missing row as a quantity of 0.      *)
update_stock_after_order_no_row_check(t, lot_no, quantity) ==
    LET rows == RowsOf(t, lot_no)
        current_qty == IF rows = << >> THEN 0 ELSE rows[1].quantity
    IN  IF current_qty < quantity
        THEN [ok |-> FALSE,
              msg |-> InsufficientMsg(lot_no, current_qty, quantity),
              stock |-> t]
        ELSE [ok |-> TRUE, msg |-> UpdatedMsg,
              stock |-> UpdateStockQty(t, lot_no, current_qty - quantity)]

update_stock_after_order(t, lot_no, quantity) ==
    LET rows == RowsOf(t, lot_no)
    IN  IF rows = << >>
        THEN [ok |-> FALSE, msg |-> NotFoundMsg(lot_no), stock |-> t]
        ELSE LET current_qty == rows[1].quantity
             IN  IF current_qty < quantity
                 THEN [ok |-> FALSE,
                       msg |-> InsufficientMsg(lot_no, current_qty, quantity),
                       stock |-> t]
                 ELSE [ok |-> TRUE, msg |-> UpdatedMsg,
                       stock |-> UpdateStockQty(t, lot_no, current_qty - quantity)]

----------------------------------------------------------------------------
(* The state after init_db() on a new inventory.db, before any page ran.   *)

NoCall == [name |-> "none"]
NoTables == [stock |-> << >>, orders |-> << >>, order_items |-> << >>]
Snapshot == [stock |-> stock, orders |-> orders, order_items |-> order_items]

InitTables ==
    /\ stock = << >>
    /\ orders = << >>
    /\ order_items = << >>
    /\ stock_entries = << >>

InitIdle ==
    /\ session_items = << >>
    /\ shown = {}
    /\ op = NoCall
    /\ pre = NoTables
    /\ ret = << >>
    /\ text = << >>
    /\ parsed = [raised |-> FALSE, entries |-> << >>]
    /\ pc = << >>
    /\ cur = << >>
    /\ req = << >>

----------------------------------------------------------------------------
(* The stock ledger called directly: any sequence of add_stock_increment,  *)
(* update_stock_from_entry and update_stock_after_order calls.             *)

Quantity(t, lot) == SumSeq([i \in 1..Len(RowsOf(t, lot)) |-> RowsOf(t, lot)[i].quantity])

CallAddStockIncrement(lot_no, product_description, quantity_to_add) ==
    /\ Quantity(stock, lot_no) + quantity_to_add <= MaxQty
    /\ stock' = add_stock_increment(stock, lot_no, product_description, quantity_to_add)
    /\ op' = [name |-> "add_stock_increment", lot_no |-> lot_no,
              product_description |-> product_description,
              quantity |-> quantity_to_add]
    /\ pre' = Snapshot
    /\ ret' = << >>
    /\ UNCHANGED <<orders, order_items, stock_entries, session_items, shown,
                   text, parsed, pc, cur, req>>

update_stock_from_entry(e) ==
    /\ stock_entries' = add_stock_entry(stock_entries, e)
    /\ stock' = set_stock(stock, e.lot_no,
                          CombinedDescription(e.product_name, e.brand_name),
                          e.balance_quantity)

Entry(lot_no, product_name, brand_name, bal_qty) ==
    [inward_date |-> <<"15/02/2025">>, storage_area |-> <<"CS-20">>,
     lot_no |-> lot_no, product_name |-> product_name, brand_name |-> brand_name,
     in_quantity |-> 0, out_quantity |-> 0, balance_quantity |-> bal_qty]

CallUpdateStockFromEntry(e) ==
    /\ Len(stock_entries) < MaxEntries
    /\ update_stock_from_entry(e)
    /\ op' = [name |-> "set_stock", lot_no |-> e.lot_no,
              product_description |-> CombinedDescription(e.product_name, e.brand_name),
              quantity |-> e.balance_quantity]
    /\ pre' = Snapshot
    /\ ret' = << >>
    /\ UNCHANGED <<orders, order_items, session_items, shown,
                   text, parsed, pc, cur, req>>

CallUpdateStockAfterOrder(lot_no, quantity) ==
    LET r == update_stock_after_order(stock, lot_no, quantity)
    IN  /\ stock' = r.stock
        /\ op' = [name |-> "update_stock_after_order", lot_no |-> lot_no,
                  quantity |-> quantity]
        /\ pre' = Snapshot
        /\ ret' = <<r.ok, r.msg>>
        /\ UNCHANGED <<orders, order_items, stock_entries, session_items, shown,
                       text, parsed, pc, cur, req>>

InitLedger == InitTables /\ InitIdle

NextLedger ==
    \/ \E l \in Lots, d \in Descs, q \in Asks : CallAddStockIncrement(l, d, q)
    \/ \E l \in Lots, p \in ProductNames, b \in BrandNames, q \in Balances :
          CallUpdateStockFromEntry(Entry(l, p, b, q))
    \/ \E l \in Lots, q \in Asks : CallUpdateStockAfterOrder(l, q)

SpecLedger == InitLedger /\ [][NextLedger]_vars

----------------------------------------------------------------------------
(* Properties of the stock ledger, under SpecLedger.                       *)

IndexOf(t, lot) == CHOOSE i \in 1..Len(t) : t[i].lot_no = lot
Exists(t, lot) == RowsOf(t, lot) # << >>
StockRow(lot_no, product_description, quantity) ==
    [lot_no |-> lot_no, product_description |-> product_description,
     quantity |-> quantity]

(* C1: every stock row holds a quantity >= 0 after any sequence of         *)
(* add_stock_increment, set_stock (via update_stock_from_entry) and        *)
(* update_stock_after_order calls.                                         *)
C1_QuantityNonNegative == \A i \in 1..Len(stock) : stock[i].quantity >= 0

(* C2: update_stock_after_order on an existing lot holding Q, asked q > 0: *)
(* Q >= q sets the quantity to Q - q and returns success; Q < q changes    *)
(* nothing and returns the failure carrying Q and q.  The description and  *)
(* every other row stay as they were.                                      *)
C2_ReserveExisting ==
    (op.name = "update_stock_after_order" /\ Exists(pre.stock, op.lot_no)) =>
        LET i == IndexOf(pre.stock, op.lot_no)
            Q == pre.stock[i].quantity
            q == op.quantity
        IN  /\ Q >= q => /\ ret = <<TRUE, UpdatedMsg>>
                         /\ stock = [pre.stock EXCEPT ![i].quantity = Q - q]
            /\ Q < q => /\ ret = <<FALSE, InsufficientMsg(op.lot_no, Q, q)>>
                        /\ stock = pre.stock
            /\ Len(stock) = Len(pre.stock)
            /\ \A j \in 1..Len(stock) :
                  /\ stock[j].lot_no = pre.stock[j].lot_no
                  /\ stock[j].product_description = pre.stock[j].product_description
                  /\ j # i => stock[j] = pre.stock[j]

C2_Witness ==
    /\ op.name = "update_stock_after_order"
    /\ ret[1] = TRUE
    /\ Len(stock) = 2
    /\ Exists(pre.stock, op.lot_no)
    /\ pre.stock[IndexOf(pre.stock, op.lot_no)].quantity > op.quantity

(* C3: update_stock_after_order on a lot with no stock row returns the     *)
(* LotNotFound failure, creates no row, and leaves the stock table as it   *)
(* was.                                                                    *)
C3_ReserveAbsent ==
    (op.name = "update_stock_after_order" /\ ~Exists(pre.stock, op.lot_no)) =>
        /\ ret = <<FALSE, NotFoundMsg(op.lot_no)>>
        /\ ~Exists(stock, op.lot_no)
        /\ stock = pre.stock

C3_Witness ==
    /\ op.name = "update_stock_after_order"
    /\ ~Exists(pre.stock, op.lot_no)
    /\ Len(pre.stock) = 1

(* C7: add_stock_increment(L, D, delta > 0) creates the row (L, D, delta)  *)
(* when L has none, and otherwise adds delta to L's quantity and sets its  *)
(* description to D; no row is removed and every other row is unchanged.   *)
C7_Increment ==
    op.name = "add_stock_increment" =>
        IF Exists(pre.stock, op.lot_no)
        THEN LET i == IndexOf(pre.stock, op.lot_no)
             IN  stock = [pre.stock EXCEPT
                             ![i] = StockRow(op.lot_no, op.product_description,
                                             pre.stock[i].quantity + op.quantity)]
        ELSE stock = Append(pre.stock,
                            StockRow(op.lot_no, op.product_description, op.quantity))

C7_Witness ==
    /\ op.name = "add_stock_increment"
    /\ Len(stock) = 2
    /\ Exists(pre.stock, op.lot_no)
    /\ pre.stock[IndexOf(pre.stock, op.lot_no)].product_description
           # op.product_description
    /\ pre.stock[IndexOf(pre.stock, op.lot_no)].quantity > 0

(* C8: set_stock(L, D, Q) overwrites unconditionally and is idempotent:    *)
(* after it the table holds exactly one row for L, equal to (L, D, Q),     *)
(* created if absent, every other row is unchanged, and a second call with *)
(* the same arguments changes neither the table nor what get_stock         *)
(* returns.                                                                *)
C8_SetStockIdempotent ==
    op.name = "set_stock" =>
        LET row == StockRow(op.lot_no, op.product_description, op.quantity)
            again == set_stock(stock, op.lot_no, op.product_description, op.quantity)
        IN  /\ RowsOf(stock, op.lot_no) = <<row>>
            /\ IF Exists(pre.stock, op.lot_no)
               THEN stock = [pre.stock EXCEPT ![IndexOf(pre.stock, op.lot_no)] = row]
               ELSE stock = Append(pre.stock, row)
            /\ again = stock
            /\ get_stock(again) = get_stock(stock)
            /\ row \in Range(pre.stock) => stock = pre.stock

(* The second of two set_stock calls with the same arguments has run, on a *)
(* table that holds another lot as well.                                   *)
C8_Witness ==
    /\ op.name = "set_stock"
    /\ Len(stock) = 2
    /\ Len(stock_entries) = 2
    /\ stock_entries[1] = stock_entries[2]
    /\ pre.stock = stock
    /\ op.quantity > 0

----------------------------------------------------------------------------
(* parse_stock_text.  The text is the sequence of its lines (the pieces    *)
(* between "\n"), a line the sequence of its tokens.                       *)

MaxLines == 2       \* lines of a pasted stock text

TAB == "\t"
SP == " "
IsSpace(tok) == tok \in {TAB, SP}

(* int(s) of a word: the value of a decimal literal, ValueError otherwise. *)
IsIntWord(w) == w \in {"0", "2", "212", "-1"}
IntValue(w) ==
    CASE w = "0" -> 0
      [] w = "2" -> 2
      [] w = "212" -> 212
      [] w = "-1" -> 0 - 1

(* "inwarddate" in w.lower() or "storagearea" in w.lower()                 *)
HasHeaderName(w) == w \in {"InwardDate", "StorageArea"}

RECURSIVE LStrip(_)
LStrip(s) == IF s # << >> /\ IsSpace(Head(s)) THEN LStrip(Tail(s)) ELSE s

RECURSIVE RStrip(_)
RStrip(s) ==
    IF s # << >> /\ IsSpace(s[Len(s)]) THEN RStrip(SubSeq(s, 1, Len(s) - 1)) ELSE s

(* str.strip() of one line or field.                                       *)
Strip(s) == RStrip(LStrip(s))

IsBlank(line) == Strip(line) = << >>

(* text.strip().splitlines(): leading and trailing blank lines go, and the *)
(* first and last lines left lose their outer whitespace.                  *)
StripSplitLines(t) ==
    IF \A i \in 1..Len(t) : IsBlank(t[i]) THEN << >>
    ELSE LET first == CHOOSE i \in 1..Len(t) :
                          ~IsBlank(t[i]) /\ \A j \in 1..(i - 1) : IsBlank(t[j])
             last == CHOOSE i \in 1..Len(t) :
                          ~IsBlank(t[i]) /\ \A j \in (i + 1)..Len(t) : IsBlank(t[j])
         IN  [k \in 1..(last - first + 1) |->
                 LET line == t[first + k - 1]
                     l1 == IF k = 1 THEN LStrip(line) ELSE line
                 IN  IF k = last - first + 1 THEN RStrip(l1) ELSE l1]

(* line.split("\t"): the pieces between tabs, empty pieces included.       *)
RECURSIVE SplitTabs(_, _)
SplitTabs(line, piece) ==
    IF line = << >> THEN <<piece>>
    ELSE IF Head(line) = TAB
         THEN <<piece>> \o SplitTabs(Tail(line), << >>)
         ELSE SplitTabs(Tail(line), Append(piece, Head(line)))

(* The length of the whitespace run that starts line.                      *)
RECURSIVE SpaceRun(_)
SpaceRun(line) ==
    IF line # << >> /\ IsSpace(Head(line)) THEN 1 + SpaceRun(Tail(line)) ELSE 0

(* re.split(r"\s{2,}", line): the pieces between runs of two or more       *)
(* whitespace characters; a single one stays in its piece.                 *)
RECURSIVE SplitWide(_, _)
SplitWide(line, piece) ==
    IF line = << >> THEN <<piece>>
    ELSE LET n == SpaceRun(line)
         IN  IF n >= 2
             THEN <<piece>> \o SplitWide(SubSeq(line, n + 1, Len(line)), << >>)
             ELSE SplitWide(Tail(line), Append(piece, Head(line)))

(* The parts of one stripped line: by tabs, else by wide whitespace.       *)
Parts(line) ==
    LET by_tab == SplitTabs(line, << >>)
    IN  IF Len(by_tab) < 8 THEN SplitWide(line, << >>) ELSE by_tab

(* int(part.strip()) succeeds.                                             *)
IsIntField(part) == Len(Strip(part)) = 1 /\ IsIntWord(Strip(part)[1])
IntField(part) == IntValue(Strip(part)[1])

(* What the loop body does with one line: "skip" (continue), "entry", or   *)
(* "raise" (the ValueError of int()).                                      *)
LineOutcome(raw_line) ==
    LET line == Strip(raw_line)
        parts == Parts(line)
    IN  IF line = << >> THEN [kind |-> "skip"]
        ELSE IF Len(parts) < 8 THEN [kind |-> "skip"]
        ELSE IF ~(IsIntField(parts[6]) /\ IsIntField(parts[7]) /\ IsIntField(parts[8]))
        THEN [kind |-> "raise"]
        ELSE [kind |-> "entry",
              entry |-> [inward_date |-> Strip(parts[1]),
                         storage_area |-> Strip(parts[2]),
                         lot_no |-> Strip(parts[3]),
                         product_name |-> Strip(parts[4]),
                         brand_name |-> Strip(parts[5]),
                         in_quantity |-> IntField(parts[6]),
                         out_quantity |-> IntField(parts[7]),
                         balance_quantity |-> IntField(parts[8])]]

(* The for loop over lines[start_index:]: the exception of one line ends   *)
(* the call, and the entries collected so far are lost with it.            *)
RECURSIVE ParseLines(_, _)
ParseLines(lines, entries) ==
    IF lines = << >> THEN [raised |-> FALSE, entries |-> entries]
    ELSE LET o == LineOutcome(Head(lines))
         IN  CASE o.kind = "skip" -> ParseLines(Tail(lines), entries)
               [] o.kind = "entry" -> ParseLines(Tail(lines), Append(entries, o.entry))
               [] o.kind = "raise" -> [raised |-> TRUE, entries |-> << >>]

HasHeader(lines) ==
    lines # << >> /\ \E i \in 1..Len(lines[1]) : HasHeaderName(lines[1][i])

parse_stock_text(t) ==
    LET lines == StripSplitLines(t)
        start_index == IF HasHeader(lines) THEN 1 ELSE 0
    IN  ParseLines(SubSeq(lines, start_index + 1, Len(lines)), << >>)

(* The lines a user may paste.                                             *)
RECURSIVE Join(_, _)
Join(fields, sep) ==
    IF Len(fields) <= 1 THEN (IF fields = << >> THEN << >> ELSE <<Head(fields)>>)
    ELSE <<Head(fields)>> \o sep \o Join(Tail(fields), sep)

Columns(lot, in_qty, out_qty, bal_qty) ==
    <<"15/02/2025", "CS-20", lot, "DATES", "AJWA", in_qty, out_qty, bal_qty>>

HeaderLine ==
    Join(<<"InwardDate", "StorageArea", "LotNo", "ProductName", "BrandName",
           "InQuantity", "OutQuantity", "BalanceQuantity">>, <<TAB>>)

SampleLines ==
    { Join(Columns("14016", "2", "0", "2"), <<TAB>>),
      Join(Columns("14019", "212", "0", "212"), <<SP, SP, SP>>),
      Join(Columns("14016", "0", "2", "-1"), <<TAB>>),
      Join(Columns("14016", "abc", "0", "2"), <<TAB>>),
      Join(Columns("14019", "2", "0", "n/a"), <<SP, SP>>),
      Join(Columns("14016", "2", "0", "2"), <<SP>>),
      Join(Columns("14016", "2", "0", "2") \o <<"note">>, <<TAB>>),
      Join(<<"15/02/2025", "CS-20", "14016", "DATES", "AJWA", "2", "0">>, <<TAB>>),
      <<SP>> \o Join(Columns("14019", "2", "2", "0"), <<TAB>>) \o <<SP>>,
      <<SP, SP>>,
      HeaderLine }

TypeLine(line) ==
    /\ Len(text) < MaxLines
    /\ text' = Append(text, line)
    /\ UNCHANGED <<stock, orders, order_items, stock_entries, session_items, shown,
                   op, pre, ret, parsed, pc, cur, req>>

CallParseStockText ==
    /\ parsed' = parse_stock_text(text)
    /\ op' = [name |-> "parse_stock_text", text |-> text]
    /\ UNCHANGED <<stock, orders, order_items, stock_entries, session_items, shown,
                   pre, ret, text, pc, cur, req>>

InitParse == InitTables /\ InitIdle

NextParse ==
    \/ \E line \in SampleLines : TypeLine(line)
    \/ CallParseStockText

SpecParse == InitParse /\ [][NextParse]_vars

(* A data line with at least 8 fields and a quantity field that is no      *)
(* integer.                                                                *)
Malformed(raw_line) ==
    /\ Len(Parts(Strip(raw_line))) >= 8
    /\ \E k \in 6..8 : ~IsIntField(Parts(Strip(raw_line))[k])

(* The text with its malformed lines taken out.                            *)
WithoutMalformed(t) == SelectSeq(t, LAMBDA line : ~Malformed(line))

(* C9: parse_stock_text never raises; a line with at least 8 fields and a  *)
(* non-integer quantity field is dropped, and the entries returned are     *)
(* those the text returns without that line.                               *)
C9_MalformedLineDropped ==
    op.name = "parse_stock_text" =>
        /\ ~parsed.raised
        /\ parsed.entries = parse_stock_text(WithoutMalformed(op.text)).entries

----------------------------------------------------------------------------
(* The order functions.                                                    *)

(* INTEGER PRIMARY KEY AUTOINCREMENT: one more than the largest id the     *)
(* table ever held; no row is ever deleted.                                *)
NextId(t) == IF t = << >> THEN 1 ELSE t[Len(t)].id + 1

(* add_order: the table with the new header, and c.lastrowid.              *)
add_order(t, party_name, gadi_no, order_date) ==
    [table |-> Append(t, [id |-> NextId(t), party_name |-> party_name,
                          gadi_no |-> gadi_no, order_date |-> order_date]),
     lastrowid |-> NextId(t)]

add_order_item(t, order_id, lot_no, quantity, product_description) ==
    Append(t, [id |-> NextId(t), order_id |-> order_id, lot_no |-> lot_no,
               quantity |-> quantity,
               product_description |-> product_description])

(* SELECT * FROM orders ORDER BY id DESC                                   *)
get_orders(t) == [i \in 1..Len(t) |-> t[Len(t) + 1 - i]]

Item(lot_no, quantity, product_description) ==
    [lot_no |-> lot_no, quantity |-> quantity,
     product_description |-> product_description]

(* SELECT lot_no, quantity, product_description FROM order_items WHERE     *)
(* order_id = ?: a scan of the table in rowid order.                       *)
get_order_items(t, order_id) ==
    LET rows == SelectSeq(t, LAMBDA r : r.order_id = order_id)
    IN  [i \in 1..Len(rows) |->
            Item(rows[i].lot_no, rows[i].quantity, rows[i].product_description)]

----------------------------------------------------------------------------
(* The submit handlers of the Place Order and Paste Order pages.           *)

(* The validation loop: update_stock_after_order for each item in turn,    *)
(* on the stock table the items before it left; error_messages collects    *)
(* the message of each item that failed.                                   *)
(* The loop stopping at the first item that fails.                       *)
RECURSIVE ValidateItems_first_failure(_, _, _)
ValidateItems_first_failure(t, items, error_messages) ==
    IF items = << >> THEN [stock |-> t, error_messages |-> error_messages]
    ELSE LET r == update_stock_after_order(t, Head(items).lot_no, Head(items).quantity)
         IN  IF r.ok
             THEN ValidateItems_first_failure(r.stock, Tail(items), error_messages)
             ELSE [stock |-> t, error_messages |-> Append(error_messages, r.msg)]

RECURSIVE ValidateItems(_, _, _)
ValidateItems(t, items, error_messages) ==
    IF items = << >> THEN [stock |-> t, error_messages |-> error_messages]
    ELSE LET r == update_stock_after_order(t, Head(items).lot_no, Head(items).quantity)
         IN  ValidateItems(r.stock, Tail(items),
                           IF r.ok THEN error_messages
                           ELSE Append(error_messages, r.msg))

(* for item in items: add_order_item(order_id, ...)                        *)
(* The items added last to first.                                         *)
RECURSIVE AddOrderItems_reversed(_, _, _)
AddOrderItems_reversed(t, order_id, items) ==
    IF items = << >> THEN t
    ELSE add_order_item(AddOrderItems_reversed(t, order_id, Tail(items)),
                        order_id, Head(items).lot_no, Head(items).quantity,
                        Head(items).product_description)

RECURSIVE AddOrderItems(_, _, _)
AddOrderItems(t, order_id, items) ==
    IF items = << >> THEN t
    ELSE AddOrderItems(add_order_item(t, order_id, Head(items).lot_no,
                                      Head(items).quantity,
                                      Head(items).product_description),
                       order_id, Tail(items))

(* The handler adding the header whether or not an item failed.           *)
SubmitHandler_no_abort(items, party_name, gadi_no, order_date) ==
    LET v == ValidateItems(stock, items, << >>)
        header == add_order(orders, party_name, gadi_no, order_date)
    IN  /\ stock' = v.stock
        /\ ret' = [error_flag |-> v.error_messages # << >>,
                   error_messages |-> v.error_messages]
        /\ orders' = header.table
        /\ order_items' = AddOrderItems(order_items, header.lastrowid, items)

(* The body of "if st.button(Submit ...)": validate, then either display   *)
(* the errors or add the header and its items.                             *)
SubmitHandler(items, party_name, gadi_no, order_date) ==
    LET v == ValidateItems(stock, items, << >>)
        error_flag == v.error_messages # << >>
        header == add_order(orders, party_name, gadi_no, order_date)
    IN  /\ stock' = v.stock
        /\ ret' = [error_flag |-> error_flag, error_messages |-> v.error_messages]
        /\ IF error_flag
           THEN UNCHANGED <<orders, order_items>>
           ELSE /\ orders' = header.table
                /\ order_items' = AddOrderItems(order_items, header.lastrowid, items)

----------------------------------------------------------------------------
(* parse_order_text.  The order text is the sequence of its lines, each    *)
(* of the kind its pattern matches: party, gadi, lot, total or other.      *)

PartyLine(name) == [kind |-> "party", value |-> name]
GadiLine(no) == [kind |-> "gadi", value |-> no]
LotLine(lot_no, quantity, description) ==
    [kind |-> "lot", lot_no |-> lot_no, quantity |-> quantity,
     description |-> description]
TotalLine(n) == [kind |-> "total", value |-> n]

(* re.search: the first match if any, else the default.                    *)
FirstOf(lines, kind, default) ==
    LET hits == SelectSeq(lines, LAMBDA l : l.kind = kind)
    IN  IF hits = << >> THEN default ELSE hits[1].value

parse_order_text(t) ==
    LET lots == SelectSeq(t, LAMBDA l : l.kind = "lot")
    IN  [party_name |-> FirstOf(t, "party", << >>),
         gadi_no |-> FirstOf(t, "gadi", << >>),
         order_items |-> [i \in 1..Len(lots) |->
                             Item(lots[i].lot_no, lots[i].quantity,
                                  lots[i].description)],
         total |-> FirstOf(t, "total", "None")]

----------------------------------------------------------------------------
(* The Streamlit pages.  Every widget interaction runs the whole script    *)
(* once; st.button returns True only in the run its own click started, so  *)
(* a run sees at most one button pressed, and only a button that the run   *)
(* before it rendered can be clicked.                                      *)

Menus == {"Paste Order", "Paste Stock", "Place Order", "Stock Management",
          "Stock Report", "View Orders"}
GadiNos == {<<"MH", SP, "05">>}
OrderDates == {<<"2025-02-15", SP, "10:00:00">>}

(* The texts pasted on the Paste Order page.                               *)
OrderTexts ==
    { << >>,
      <<PartyLine(<<"NS">>), GadiLine(<<"MH", SP, "05">>),
        LotLine(<<"14016">>, 2, <<"SAFAWI">>), TotalLine(2)>>,
      <<LotLine(<<"14016">>, 0, <<"SAFAWI">>), LotLine(<<"14019">>, 2, <<"AJWA">>)>> }

(* The texts pasted on the Paste Stock page.                               *)
StockTexts ==
    { << >>,
      <<HeaderLine, Join(Columns("14016", "2", "0", "2"), <<TAB>>)>>,
      <<Join(Columns("14016", "abc", "0", "2"), <<TAB>>)>>,
      <<Join(Columns("14016", "2", "0", "2"), <<SP>>)>> }

(* raw_text.strip() is not empty.                                          *)
NonBlank(t) == \E i \in 1..Len(t) : t[i] # << >>

(* A script run: the page, the button that started it, and the items the  *)
(* submit handler ran on, if the run reached it.                           *)
Run(menu, button) ==
    [name |-> "run", menu |-> menu, button |-> button,
     submitted |-> FALSE, items |-> << >>]
Submission(menu, button, items) ==
    [name |-> "run", menu |-> menu, button |-> button,
     submitted |-> TRUE, items |-> items]

(* A run no button started: the page was picked in the sidebar, or a       *)
(* widget other than a button changed.                                     *)
Navigate(menu) ==
    /\ shown' = CASE menu = "Paste Order" -> {"Parse Order"}
                  [] menu = "Paste Stock" -> {"Parse & Update Stock"}
                  [] menu = "Place Order" ->
                        {"Add Item to Order"} \cup
                        (IF session_items # << >> THEN {"Submit Order"} ELSE {})
                  [] menu = "Stock Management" -> {"Add/Update Stock"}
                  [] OTHER -> {}
    /\ ret' = CASE menu = "Stock Report" -> get_stock(stock)
                [] menu = "View Orders" ->
                      [i \in 1..Len(orders) |->
                          [order |-> get_orders(orders)[i],
                           items |-> get_order_items(order_items,
                                                     get_orders(orders)[i].id)]]
                [] OTHER -> << >>
    /\ op' = Run(menu, "none")
    /\ pre' = Snapshot
    /\ UNCHANGED <<stock, orders, order_items, stock_entries, session_items,
                   text, parsed, pc, cur, req>>

(* The Paste Order page, lines 301-347.                                    *)
PasteOrderRun(raw_text, parse_order, submit_parsed_order) ==
    /\ pre' = Snapshot
    /\ IF parse_order /\ NonBlank(raw_text)
       THEN LET order_data == parse_order_text(raw_text)
            IN  /\ shown' = {"Parse Order", "Submit Parsed Order"}
                /\ IF submit_parsed_order
                   THEN /\ SubmitHandler(order_data.order_items,
                                         order_data.party_name, order_data.gadi_no,
                                         CHOOSE d \in OrderDates : TRUE)
                        /\ op' = Submission("Paste Order", "Submit Parsed Order",
                                            order_data.order_items)
                   ELSE /\ ret' = order_data
                        /\ op' = Run("Paste Order", "Parse Order")
                        /\ UNCHANGED <<stock, orders, order_items>>
       ELSE /\ shown' = {"Parse Order"}
            /\ ret' = << >>
            /\ op' = Run("Paste Order",
                         IF parse_order THEN "Parse Order"
                         ELSE IF submit_parsed_order THEN "Submit Parsed Order"
                         ELSE "none")
            /\ UNCHANGED <<stock, orders, order_items>>
    /\ UNCHANGED <<stock_entries, session_items, text, parsed, pc, cur, req>>

PressParseOrder(raw_text) ==
    /\ "Parse Order" \in shown
    /\ PasteOrderRun(raw_text, TRUE, FALSE)

PressSubmitParsedOrder(raw_text) ==
    /\ "Submit Parsed Order" \in shown
    /\ PasteOrderRun(raw_text, FALSE, TRUE)

(* for e in stock_entries: update_stock_from_entry(...)                    *)
RECURSIVE ApplyEntries(_, _, _)
ApplyEntries(entries_table, stock_table, entries) ==
    IF entries = << >> THEN [stock_entries |-> entries_table, stock |-> stock_table]
    ELSE LET e == Head(entries)
         IN  ApplyEntries(add_stock_entry(entries_table, e),
                          set_stock(stock_table, e.lot_no,
                                    CombinedDescription(e.product_name, e.brand_name),
                                    e.balance_quantity),
                          Tail(entries))

(* parse_stock_text of each text a user may paste.                        *)
ParsedStockTexts == [t \in StockTexts |-> parse_stock_text(t)]

(* The Paste Stock page, lines 350-384.  The ValueError of                 *)
(* parse_stock_text ends the run where it is raised.                       *)
PasteStockRun(raw_stock_text, parse_update_stock, submit_stock_entries) ==
    LET p == ParsedStockTexts[raw_stock_text]
        listed == parse_update_stock /\ NonBlank(raw_stock_text)
                     /\ ~p.raised /\ p.entries # << >>
        applied == ApplyEntries(stock_entries, stock, p.entries)
    IN  /\ op' = Run("Paste Stock",
                     IF parse_update_stock THEN "Parse & Update Stock"
                     ELSE IF submit_stock_entries THEN "Submit Stock Entries"
                     ELSE "none")
        /\ pre' = Snapshot
        /\ shown' = {"Parse & Update Stock"} \cup
                    (IF listed THEN {"Submit Stock Entries"} ELSE {})
        /\ ret' = IF listed THEN p.entries ELSE << >>
        /\ IF listed /\ submit_stock_entries
           THEN /\ stock_entries' = applied.stock_entries
                /\ stock' = applied.stock
           ELSE UNCHANGED <<stock, stock_entries>>
        /\ UNCHANGED <<orders, order_items, session_items, text, parsed, pc, cur, req>>

PressParseUpdateStock(raw_stock_text) ==
    /\ "Parse & Update Stock" \in shown
    /\ PasteStockRun(raw_stock_text, TRUE, FALSE)

PressSubmitStockEntries(raw_stock_text) ==
    /\ "Submit Stock Entries" \in shown
    /\ PasteStockRun(raw_stock_text, FALSE, TRUE)

(* The page forgetting the pending items after every submission.           *)
PlaceOrderRun_clear_on_failure(party_name, gadi_no, order_date, lot_no, quantity, product_description, add_item, submit_order) ==
    LET accepted == add_item /\ lot_no # << >> /\ product_description # << >>
                       /\ quantity # 0
        items == IF accepted
                 THEN Append(session_items, Item(lot_no, quantity, product_description))
                 ELSE session_items
    IN  /\ pre' = Snapshot
        /\ shown' = {"Add Item to Order"} \cup
                    (IF items # << >> THEN {"Submit Order"} ELSE {})
        /\ IF items # << >> /\ submit_order
           THEN /\ SubmitHandler(items, party_name, gadi_no, order_date)
                /\ op' = Submission("Place Order", "Submit Order", items)
                /\ session_items' = << >>
           ELSE /\ session_items' = items
                /\ op' = Run("Place Order",
                             IF add_item THEN "Add Item to Order"
                             ELSE IF submit_order THEN "Submit Order" ELSE "none")
                /\ ret' = IF add_item THEN <<accepted>> ELSE << >>
                /\ UNCHANGED <<stock, orders, order_items>>
        /\ UNCHANGED <<stock_entries, text, parsed, pc, cur, req>>

(* The Place Order page, lines 387-443.                                    *)
PlaceOrderRun(party_name, gadi_no, order_date, lot_no, quantity, product_description, add_item, submit_order) ==
    LET accepted == add_item /\ lot_no # << >> /\ product_description # << >>
                       /\ quantity # 0
        items == IF accepted
                 THEN Append(session_items, Item(lot_no, quantity, product_description))
                 ELSE session_items
    IN  /\ pre' = Snapshot
        /\ shown' = {"Add Item to Order"} \cup
                    (IF items # << >> THEN {"Submit Order"} ELSE {})
        /\ IF items # << >> /\ submit_order
           THEN /\ SubmitHandler(items, party_name, gadi_no, order_date)
                /\ op' = Submission("Place Order", "Submit Order", items)
                /\ session_items' = IF ret'.error_flag THEN items ELSE << >>
           ELSE /\ session_items' = items
                /\ op' = Run("Place Order",
                             IF add_item THEN "Add Item to Order"
                             ELSE IF submit_order THEN "Submit Order" ELSE "none")
                /\ ret' = IF add_item THEN <<accepted>> ELSE << >>
                /\ UNCHANGED <<stock, orders, order_items>>
        /\ UNCHANGED <<stock_entries, text, parsed, pc, cur, req>>

PressAddItem(lot_no, quantity, product_description) ==
    /\ "Add Item to Order" \in shown
    /\ Len(order_items) + Len(session_items) < MaxRows
    /\ \E p \in Parties, g \in GadiNos, d \in OrderDates :
          PlaceOrderRun(p, g, d, lot_no, quantity, product_description, TRUE, FALSE)

PressSubmitOrder(party_name) ==
    /\ "Submit Order" \in shown
    /\ \E g \in GadiNos, d \in OrderDates, l \in Lots, q \in Asks, pd \in Descs :
          PlaceOrderRun(party_name, g, d, l, q, pd, FALSE, TRUE)

(* The Stock Management page, lines 446-459.                               *)
PressAddUpdateStock(lot_no_stock, product_description_stock, stock_quantity) ==
    /\ "Add/Update Stock" \in shown
    /\ Quantity(stock, lot_no_stock) + stock_quantity <= MaxQty
    /\ op' = Run("Stock Management", "Add/Update Stock")
    /\ pre' = Snapshot
    /\ shown' = {"Add/Update Stock"}
    /\ IF lot_no_stock # << >> /\ product_description_stock # << >>
          /\ stock_quantity # 0
       THEN /\ stock' = add_stock_increment(stock, lot_no_stock,
                                            product_description_stock, stock_quantity)
            /\ ret' = <<TRUE>>
       ELSE /\ UNCHANGED stock
            /\ ret' = <<FALSE>>
    /\ UNCHANGED <<orders, order_items, stock_entries, session_items,
                   text, parsed, pc, cur, req>>

(* The first run of a session: the sidebar radio starts on "Paste Order".  *)
Init ==
    /\ InitTables
    /\ session_items = << >>
    /\ shown = {"Parse Order"}
    /\ op = Run("Paste Order", "none")
    /\ pre = NoTables
    /\ ret = << >>
    /\ text = << >>
    /\ parsed = [raised |-> FALSE, entries |-> << >>]
    /\ pc = << >>
    /\ cur = << >>
    /\ req = << >>

Next ==
    \/ \E menu \in Menus : Navigate(menu)
    \/ \E t \in OrderTexts : PressParseOrder(t)
    \/ \E t \in OrderTexts : PressSubmitParsedOrder(t)
    \/ \E t \in StockTexts : PressParseUpdateStock(t)
    \/ \E t \in StockTexts : PressSubmitStockEntries(t)
    \/ \E l \in Lots \cup {<< >>}, q \in ItemAsks, d \in Descs : PressAddItem(l, q, d)
    \/ \E p \in Parties : PressSubmitOrder(p)
    \/ \E l \in Lots \cup {<< >>}, d \in Descs, q \in Asks : PressAddUpdateStock(l, d, q)

Spec == Init /\ [][Next]_vars

----------------------------------------------------------------------------
(* Properties of order submission, under Spec.                             *)

RECURSIVE SumOver(_, _)
SumOver(S, f) ==
    IF S = {} THEN 0
    ELSE LET x == CHOOSE y \in S : TRUE IN f[x] + SumOver(S \ {x}, f)

IsPrefix(a, b) == Len(a) <= Len(b) /\ SubSeq(b, 1, Len(a)) = a

AllLots == {pre.stock[i].lot_no : i \in 1..Len(pre.stock)}
              \cup {op.items[i].lot_no : i \in 1..Len(op.items)}

(* The quantities the submitted items ask of a lot, and those asked by the *)
(* items the displayed messages refuse.                                    *)
Asked(lot) ==
    SumOver({i \in 1..Len(op.items) : op.items[i].lot_no = lot},
            [i \in 1..Len(op.items) |-> op.items[i].quantity])
Refused(lot) ==
    SumOver({i \in 1..Len(ret.error_messages) :
                 /\ ret.error_messages[i].kind = "InsufficientStock"
                 /\ ret.error_messages[i].lot_no = lot},
            [i \in 1..Len(ret.error_messages) |-> ret.error_messages[i].required])

(* Only quantities changed: same rows, same lots, same descriptions.       *)
SameLots ==
    /\ Len(stock) = Len(pre.stock)
    /\ \A i \in 1..Len(stock) :
          /\ stock[i].lot_no = pre.stock[i].lot_no
          /\ stock[i].product_description = pre.stock[i].product_description

(* C4: a submission with a failing item adds no header and no item to the  *)
(* order log; the quantities of the items that passed stay deducted, and   *)
(* the items that failed deduct nothing.                                   *)
C4_FailedSubmission ==
    (op.submitted /\ ret.error_flag) =>
        /\ ret.error_messages # << >>
        /\ orders = pre.orders
        /\ order_items = pre.order_items
        /\ SameLots
        /\ \A lot \in AllLots :
              Exists(pre.stock, lot) =>
                  Quantity(stock, lot) =
                      Quantity(pre.stock, lot) - (Asked(lot) - Refused(lot))

(* Two items on two lots, the first in stock, the second not: the first    *)
(* lot is reduced and the order log is as before.                          *)
C4_Witness ==
    /\ op.submitted /\ ret.error_flag
    /\ Len(op.items) = 2
    /\ op.items[1].lot_no # op.items[2].lot_no
    /\ Len(ret.error_messages) = 1
    /\ ret.error_messages[1].kind = "InsufficientStock"
    /\ ret.error_messages[1].lot_no = op.items[2].lot_no
    /\ Quantity(stock, op.items[1].lot_no)
           = Quantity(pre.stock, op.items[1].lot_no) - op.items[1].quantity
    /\ Quantity(stock, op.items[2].lot_no) = Quantity(pre.stock, op.items[2].lot_no)
    /\ orders = pre.orders

(* C5: a submission whose items all pass adds exactly one header, with an  *)
(* id no header had, and exactly its items, in their order, and each lot   *)
(* is reduced by what its items ask; no run changes or removes a header or *)
(* an item that exists, and no other run adds one.                         *)
C5_SuccessfulSubmission ==
    /\ IsPrefix(pre.orders, orders)
    /\ IsPrefix(pre.order_items, order_items)
    /\ ~(op.submitted /\ ~ret.error_flag) =>
          (orders = pre.orders /\ order_items = pre.order_items)
    /\ (op.submitted /\ ~ret.error_flag) =>
          LET new == orders[Len(orders)]
          IN  /\ Len(orders) = Len(pre.orders) + 1
              /\ \A i \in 1..Len(pre.orders) : pre.orders[i].id # new.id
              /\ Len(order_items) = Len(pre.order_items) + Len(op.items)
              /\ \A i \in 1..Len(pre.order_items) :
                    pre.order_items[i].order_id # new.id
              /\ get_order_items(order_items, new.id) = op.items
              /\ \A i, j \in 1..Len(order_items) :
                    i # j => order_items[i].id # order_items[j].id
              /\ SameLots
              /\ \A lot \in AllLots :
                    /\ Exists(pre.stock, lot)
                    /\ Quantity(stock, lot) = Quantity(pre.stock, lot) - Asked(lot)

(* A second order, of two different items, has been stored.                *)
C5_Witness ==
    /\ op.submitted /\ ~ret.error_flag
    /\ Len(pre.orders) = 1
    /\ Len(op.items) = 2
    /\ op.items[1] # op.items[2]
    /\ get_orders(orders)[1].id = 2

(* What item i of the submission finds: the quantity its lot held before   *)
(* the submission, less what the earlier items that passed took of it.     *)
Passes[i \in 1..Len(op.items)] ==
    LET lot == op.items[i].lot_no
        earlier == {j \in 1..(i - 1) : op.items[j].lot_no = lot /\ Passes[j]}
        taken == SumOver(earlier, [j \in 1..Len(op.items) |-> op.items[j].quantity])
    IN  /\ Exists(pre.stock, lot)
        /\ Quantity(pre.stock, lot) - taken >= op.items[i].quantity

Available(i) ==
    LET lot == op.items[i].lot_no
        earlier == {j \in 1..(i - 1) : op.items[j].lot_no = lot /\ Passes[j]}
    IN  Quantity(pre.stock, lot)
            - SumOver(earlier, [j \in 1..Len(op.items) |-> op.items[j].quantity])

RECURSIVE ExpectedMessages(_)
ExpectedMessages(i) ==
    IF i > Len(op.items) THEN << >>
    ELSE (IF Passes[i] THEN << >>
          ELSE IF ~Exists(pre.stock, op.items[i].lot_no)
               THEN <<NotFoundMsg(op.items[i].lot_no)>>
               ELSE <<InsufficientMsg(op.items[i].lot_no, Available(i),
                                      op.items[i].quantity)>>)
         \o ExpectedMessages(i + 1)

(* C6: a submission tries every item in list order, each against the      *)
(* stock the items before it left, and does not stop at a failure: the     *)
(* messages are one per failing item, in item order.                       *)
C6_EveryItemTried ==
    op.submitted =>
        /\ ret.error_messages = ExpectedMessages(1)
        /\ ret.error_flag = (\E i \in 1..Len(op.items) : ~Passes[i])
        /\ \A lot \in AllLots :
              Exists(pre.stock, lot) =>
                  Quantity(stock, lot) =
                      Quantity(pre.stock, lot)
                          - SumOver({i \in 1..Len(op.items) :
                                         op.items[i].lot_no = lot /\ Passes[i]},
                                    [i \in 1..Len(op.items) |-> op.items[i].quantity])

(* Two items on one lot holding Q: the first passes, the second is refused *)
(* with Q less the first item's quantity available.                        *)
C6_Witness ==
    /\ op.submitted
    /\ Len(op.items) = 2
    /\ op.items[1].lot_no = op.items[2].lot_no
    /\ Quantity(pre.stock, op.items[1].lot_no) > op.items[1].quantity
    /\ ret.error_messages =
          <<InsufficientMsg(op.items[2].lot_no,
                            Quantity(pre.stock, op.items[1].lot_no)
                                - op.items[1].quantity,
                            op.items[2].quantity)>>

----------------------------------------------------------------------------
(* Two sessions in update_stock_after_order at once.  Streamlit runs each  *)
(* session's script in a thread of its own; the SELECT and the UPDATE are  *)
(* two statements with no transaction around them, and each statement is   *)
(* atomic.                                                                 *)

Sessions == {1, 2}
NoRow == << >>      \* fetchone() returning None; a row is the tuple <<quantity>>

(* new_qty = current_qty - quantity; UPDATE stock SET quantity = new_qty   *)
(* with the current_qty the SELECT returned.                               *)
DeductFetched_in_place(t, lot_no, current_qty, quantity) ==
    UpdateStockQty(t, lot_no, RowsOf(t, lot_no)[1].quantity - quantity)

DeductFetched(t, lot_no, current_qty, quantity) ==
    UpdateStockQty(t, lot_no, current_qty - quantity)

AllIdle == \A s \in Sessions : pc[s] = "idle"

(* A Stock Management run, while no order is being validated.              *)
RaceAddStock(lot_no, product_description, quantity_to_add) ==
    /\ AllIdle
    /\ Quantity(stock, lot_no) + quantity_to_add <= MaxQty
    /\ stock' = add_stock_increment(stock, lot_no, product_description, quantity_to_add)
    /\ UNCHANGED <<orders, order_items, stock_entries, session_items, shown,
                   op, pre, ret, text, parsed, pc, cur, req>>

(* Session s enters update_stock_after_order(lot_no, quantity).            *)
RaceCall(s, lot_no, quantity) ==
    /\ pc[s] = "idle"
    /\ req' = [req EXCEPT ![s] = [lot_no |-> lot_no, quantity |-> quantity]]
    /\ pc' = [pc EXCEPT ![s] = "select"]
    /\ UNCHANGED <<stock, orders, order_items, stock_entries, session_items, shown,
                   op, pre, ret, text, parsed, cur>>

(* c.execute("SELECT quantity ...") and row = c.fetchone()                 *)
RaceSelect(s) ==
    /\ pc[s] = "select"
    /\ cur' = [cur EXCEPT ![s] =
                  IF Exists(stock, req[s].lot_no)
                  THEN <<RowsOf(stock, req[s].lot_no)[1].quantity>> ELSE NoRow]
    /\ pc' = [pc EXCEPT ![s] = "check"]
    /\ UNCHANGED <<stock, orders, order_items, stock_entries, session_items, shown,
                   op, pre, ret, text, parsed, req>>

(* The two checks on the fetched row, then the UPDATE and the return.      *)
RaceCheckAndUpdate(s) ==
    /\ pc[s] = "check"
    /\ pc' = [pc EXCEPT ![s] = "done"]
    /\ IF cur[s] = NoRow
       THEN /\ ret' = [ret EXCEPT ![s] = <<FALSE, NotFoundMsg(req[s].lot_no)>>]
            /\ UNCHANGED stock
       ELSE IF cur[s][1] < req[s].quantity
       THEN /\ ret' = [ret EXCEPT ![s] =
                          <<FALSE, InsufficientMsg(req[s].lot_no, cur[s][1],
                                                   req[s].quantity)>>]
            /\ UNCHANGED stock
       ELSE /\ ret' = [ret EXCEPT ![s] = <<TRUE, UpdatedMsg>>]
            /\ stock' = DeductFetched(stock, req[s].lot_no, cur[s][1],
                                       req[s].quantity)
    /\ UNCHANGED <<orders, order_items, stock_entries, session_items, shown,
                   op, pre, text, parsed, cur, req>>

NoResult == <<"none">>
NoRequest == [lot_no |-> << >>, quantity |-> 0]

(* Both sessions have returned; the next runs start afresh.                *)
RaceFinish ==
    /\ \A s \in Sessions : pc[s] = "done"
    /\ pc' = [s \in Sessions |-> "idle"]
    /\ cur' = [s \in Sessions |-> NoRow]
    /\ req' = [s \in Sessions |-> NoRequest]
    /\ ret' = [s \in Sessions |-> NoResult]
    /\ UNCHANGED <<stock, orders, order_items, stock_entries, session_items, shown,
                   op, pre, text, parsed>>

InitRace ==
    /\ InitTables
    /\ session_items = << >>
    /\ shown = {}
    /\ op = NoCall
    /\ pre = NoTables
    /\ text = << >>
    /\ parsed = [raised |-> FALSE, entries |-> << >>]
    /\ pc = [s \in Sessions |-> "idle"]
    /\ cur = [s \in Sessions |-> NoRow]
    /\ req = [s \in Sessions |-> NoRequest]
    /\ ret = [s \in Sessions |-> NoResult]

NextRace ==
    \/ \E l \in Lots, d \in Descs, q \in Asks : RaceAddStock(l, d, q)
    \/ \E s \in Sessions, l \in Lots, q \in Asks : RaceCall(s, l, q)
    \/ \E s \in Sessions : RaceSelect(s)
    \/ \E s \in Sessions : RaceCheckAndUpdate(s)
    \/ RaceFinish

SpecRace == InitRace /\ [][NextRace]_vars

(* Both sessions asked the same lot, both fetched the quantity Q, and      *)
(* each asked no more than Q.                                              *)
BothFetched(Q) ==
    /\ \A s \in Sessions : pc[s] = "done" /\ cur[s] = <<Q>>
    /\ req[1].lot_no = req[2].lot_no
    /\ req[1].quantity <= Q
    /\ req[2].quantity <= Q

(* C10: two update_stock_after_order calls on one lot that both fetch Q    *)
(* before either writes, with q1 <= Q and q2 <= Q, both return success,    *)
(* and the lot is left at Q - q1 or at Q - q2.                             *)
C10_BothReservesPass ==
    \A Q \in 0..MaxQty :
        BothFetched(Q) /\ req[1].quantity + req[2].quantity > Q =>
            /\ ret[1] = <<TRUE, UpdatedMsg>>
            /\ ret[2] = <<TRUE, UpdatedMsg>>
            /\ Quantity(stock, req[1].lot_no)
                   \in {Q - req[1].quantity, Q - req[2].quantity}

(* More was reserved with success than the lot held: q1 + q2 > Q.          *)
C10_Witness ==
    \E Q \in 1..MaxQty :
        /\ BothFetched(Q)
        /\ req[1].quantity # req[2].quantity
        /\ req[1].quantity + req[2].quantity > Q
        /\ ret[1][1] = TRUE /\ ret[2][1] = TRUE
        /\ Quantity(stock, req[1].lot_no) + req[1].quantity + req[2].quantity > Q

----------------------------------------------------------------------------
(* The two-step flows of the paste pages, under Spec.                      *)

(* The quantity a list of items asks of a lot.                             *)
AskedOf(items, lot) ==
    SumOver({i \in 1..Len(items) : items[i].lot_no = lot},
            [i \in 1..Len(items) |-> items[i].quantity])

(* Every item of the list is on a lot that holds what the list asks of it. *)
InSufficientStock(items, t) ==
    \A i \in 1..Len(items) :
        /\ Exists(t, items[i].lot_no)
        /\ AskedOf(items, items[i].lot_no) <= Quantity(t, items[i].lot_no)

(* The run a click on "Submit Parsed Order" starts: the run before it      *)
(* displayed the parsed order, which ret holds, and rendered the button.   *)
SubmitParsedOrderClicked ==
    /\ "Submit Parsed Order" \in shown
    /\ op.menu = "Paste Order" /\ op.button = "Parse Order"
    /\ op'.menu = "Paste Order" /\ op'.button = "Submit Parsed Order"

(* The run a click on "Submit Stock Entries" starts: the run before it     *)
(* displayed the parsed entries, which ret holds, and rendered the button. *)
SubmitStockEntriesClicked ==
    /\ "Submit Stock Entries" \in shown
    /\ op.menu = "Paste Stock" /\ op.button = "Parse & Update Stock"
    /\ op'.menu = "Paste Stock" /\ op'.button = "Submit Stock Entries"

(* C11: both paste flows complete.  The run started by "Submit Parsed      *)
(* Order", pressed on a parsed order whose items are all in sufficient     *)
(* stock, deducts each lot by what the items ask of it and stores one new  *)
(* header with the parsed party and vehicle and exactly the parsed items;  *)
(* the run started by "Submit Stock Entries", pressed on parsed entries,   *)
(* applies every entry to stock_entries and to the stock ledger.           *)
C11_PasteFlowsComplete ==
    [][ /\ (SubmitParsedOrderClicked /\ ret.order_items # << >>
                /\ InSufficientStock(ret.order_items, stock)) =>
              /\ \A i \in 1..Len(ret.order_items) :
                    LET lot == ret.order_items[i].lot_no
                    IN  Quantity(stock', lot) =
                            Quantity(stock, lot) - AskedOf(ret.order_items, lot)
              /\ Len(orders') = Len(orders) + 1
              /\ orders'[Len(orders')].party_name = ret.party_name
              /\ orders'[Len(orders')].gadi_no = ret.gadi_no
              /\ get_order_items(order_items', orders'[Len(orders')].id)
                     = ret.order_items
        /\ (SubmitStockEntriesClicked /\ ret # << >>) =>
              /\ stock_entries' = ApplyEntries(stock_entries, stock, ret).stock_entries
              /\ stock' = ApplyEntries(stock_entries, stock, ret).stock
      ]_vars

----------------------------------------------------------------------------
(* The pending items of the Place Order page, under Spec.                  *)

(* What a run does to st.session_state.order_items: a submission that      *)
(* succeeds empties the list, an accepted "Add Item to Order" appends one  *)
(* item, and every other run (a failed submission, a rejected "Add Item",  *)
(* a run of another page) leaves the list as it is.                        *)
PendingItemsFrame ==
    LET submission == op'.submitted /\ op'.menu = "Place Order"
        add_item == op'.menu = "Place Order" /\ op'.button = "Add Item to Order"
    IN  /\ (submission /\ ~ret'.error_flag) => session_items' = << >>
        /\ (submission /\ ret'.error_flag) =>
              (session_items' = session_items /\ session_items' = op'.items)
        /\ (add_item /\ ret' = <<FALSE>>) => session_items' = session_items
        /\ (add_item /\ ret' = <<TRUE>>) =>
              /\ Len(session_items') = Len(session_items) + 1
              /\ IsPrefix(session_items, session_items')
        /\ (~submission /\ ~add_item) => session_items' = session_items
        /\ (session_items # << >> /\ session_items' = << >>) =>
              (submission /\ ~ret'.error_flag)

(* "Submit Order" pressed again on the page a failed submission left.      *)
Retry ==
    /\ op.submitted /\ op.menu = "Place Order" /\ ret.error_flag
    /\ op'.submitted /\ op'.menu = "Place Order"

(* Item i is the only item of the submission on its lot.                   *)
AloneOnLot(i) ==
    \A j \in 1..Len(op.items) : j # i => op.items[j].lot_no # op.items[i].lot_no

(* The quantities of the items on a lot that passed in the submission.     *)
Taken(lot) ==
    SumOver({i \in 1..Len(op.items) : op.items[i].lot_no = lot /\ Passes[i]},
            [i \in 1..Len(op.items) |-> op.items[i].quantity])

====
